---- MODULE Spec2Model ----
\* Model of controller.py: the step controller of an agent that moves inside a
\* grid world, the two-pass collision resolver and the coin collector.
\*
\* Numbers: the source works on floats with a cell extent of 1.  The model is
\* fixed point: one cell is Cell units, so 0.1 is 10 units and 1.05 is 105.
\* Sums, differences and comparisons are exact; the three places where the
\* source leaves the rationals (cos, sin and the division by a square root)
\* round to the nearest unit.  Headings are whole degrees.
EXTENDS Integers, Sequences, FiniteSets, TLC

VARIABLES
    grid,     \* level.grid: rows of cell values, row 1 is the first stored row
    args,     \* the constructor's arguments (stride, turn, radii)
    coord,    \* level.agent.coord
    theta,    \* level.agent.theta, degrees
    coins,    \* level.coins
    start,    \* the level as it was handed to the controller
    last,     \* the last call: its name, arguments, entry state and outcome
    ncalls    \* number of calls made so far

vars == <<grid, args, coord, theta, coins, start, last, ncalls>>

\* ---------------------------------------------------------------- bounds

MaxSteps == 2
MaxCoins == 2

\* ---------------------------------------------------------------- numbers

\* extent of one grid cell (cx0, cx1 = cx, cx + 1), in fixed-point units
Cell == 100

ACTION_WALK_FORWARD == "WALK_FORWARD"
ACTION_TURN_LEFT == "TURN_LEFT"
ACTION_TURN_RIGHT == "TURN_RIGHT"
Actions == {ACTION_WALK_FORWARD, ACTION_TURN_LEFT, ACTION_TURN_RIGHT}

\* Python 3 round(v) of a coordinate: nearest cell index, ties to even
round(v) ==
    LET q == v \div Cell
        r == v % Cell
    IN  IF 2 * r < Cell THEN q
        ELSE IF 2 * r > Cell THEN q + 1
        ELSE IF q % 2 = 0 THEN q ELSE q + 1

\* math.cos of a heading that is a multiple of 45 degrees, times 10000
cos(t) ==
    LET d == t % 360
    IN  CASE d = 0 -> 10000
          [] d = 45 -> 7071
          [] d = 90 -> 0
          [] d = 135 -> -7071
          [] d = 180 -> -10000
          [] d = 225 -> -7071
          [] d = 270 -> 0
          [] d = 315 -> 7071

\* math.sin
sin(t) == cos(t - 90)

\* distance * cos(theta), to the nearest unit
Times(distance, c) ==
    LET p == distance * c
    IN  IF p >= 0 THEN (2 * p + 10000) \div 20000
        ELSE -((2 * (-p) + 10000) \div 20000)

\* v * ar / sqrt(dist2), to the nearest unit (dist2 > 0, |v| <= sqrt(dist2))
Rescale(v, ar, dist2) ==
    LET fits == {m \in 0..ar : m = 0 \/ (2 * m - 1) * (2 * m - 1) * dist2 <= 4 * v * v * ar * ar}
        mag == CHOOSE m \in fits : \A k \in fits : k <= m
    IN  IF v < 0 THEN -mag ELSE mag

\* ---------------------------------------------------------------- grid

\* np.array(level.grid).shape
grid_shape(g) == <<Len(g), Len(g[1])>>

\* mutant of IsSolidCell: the row is read without the flip of the y axis
IsSolidCell_unflipped(g, cx, cy) ==
    /\ ~(cx < 0 \/ cy < 0 \/ cx >= grid_shape(g)[2] \/ cy >= grid_shape(g)[1])
    /\ g[cy + 1][cx + 1] # 0

\* the early exits of both per-cell checks: out of bounds, or an open cell
IsSolidCell(g, cx, cy) ==
    /\ ~(cx < 0 \/ cy < 0 \/ cx >= grid_shape(g)[2] \/ cy >= grid_shape(g)[1])
    /\ LET cy_flip == grid_shape(g)[1] - cy - 1
       IN  g[cy_flip + 1][cx + 1] # 0

\* ---------------------------------------------------------------- coins

RemoveAt(s, i) == SubSeq(s, 1, i - 1) \o SubSeq(s, i + 1, Len(s))

\* mutant of collect_loop: a coin at the threshold is collected too
RECURSIVE collect_loop_inclusive(_, _, _, _, _)
collect_loop_inclusive(cs, i, agent_x, agent_y, threshold2) ==
    IF ~(i <= Len(cs)) THEN cs
    ELSE LET coin == cs[i]
             vx == coin[1] - agent_x
             vy == coin[2] - agent_y
             dist2 == vx * vx + vy * vy
         IN  IF dist2 <= threshold2
             THEN collect_loop_inclusive(RemoveAt(cs, i), i + 1, agent_x, agent_y, threshold2)
             ELSE collect_loop_inclusive(cs, i + 1, agent_x, agent_y, threshold2)

\* the while loop of _collect_coins; i is the source's index plus one
RECURSIVE collect_loop(_, _, _, _, _)
collect_loop(cs, i, agent_x, agent_y, threshold2) ==
    IF ~(i <= Len(cs)) THEN cs
    ELSE LET coin == cs[i]
             vx == coin[1] - agent_x
             vy == coin[2] - agent_y
             dist2 == vx * vx + vy * vy
         IN  IF dist2 < threshold2
             THEN collect_loop(RemoveAt(cs, i), i + 1, agent_x, agent_y, threshold2)
             ELSE collect_loop(cs, i + 1, agent_x, agent_y, threshold2)

\* mutant of _collect_coins: the threshold leaves out the coin's radius
_collect_coins_agent_radius_only(cs, coin_radius, agent_x, agent_y, agent_radius) ==
    collect_loop(cs, 1, agent_x, agent_y, agent_radius * agent_radius)

_collect_coins(cs, coin_radius, agent_x, agent_y, agent_radius) ==
    LET threshold == agent_radius + coin_radius
        threshold2 == threshold * threshold
    IN  collect_loop(cs, 1, agent_x, agent_y, threshold2)

\* ---------------------------------------------------------------- collision

\* One per-cell face check.  pos is agent.coord on entry; the result is
\* agent.coord on exit and the truthiness of the returned value.
_handle_bounding_collision(g, cell_coord, pos, ar) ==
    LET cx == cell_coord[1]
        cy == cell_coord[2]
    IN  IF ~IsSolidCell(g, cx, cy) THEN [coord |-> pos, ret |-> FALSE]
        ELSE
        LET cx0 == cx * Cell
            cx1 == (cx + 1) * Cell
            cy0 == cy * Cell
            cy1 == (cy + 1) * Cell
            \* twice the cell centre, to stay in the integers
            ccx2 == cx0 + cx1
            ccy2 == cy0 + cy1
            ax == pos[1]
            ay == pos[2]
            new_y == IF cx0 <= ax /\ ax <= cx1
                     THEN IF 2 * ay > ccy2 /\ ay - cy1 < ar THEN cy1 + ar
                          ELSE IF 2 * ay < ccy2 /\ cy0 - ay < ar THEN cy0 - ar
                          ELSE ay
                     ELSE ay
            new_x == IF cy0 <= ay /\ ay <= cy1
                     THEN IF 2 * ax > ccx2 /\ ax - cx1 < ar THEN cx1 + ar
                          ELSE IF 2 * ax < ccx2 /\ cx0 - ax < ar THEN cx0 - ar
                          ELSE ax
                     ELSE ax
        IN  [coord |-> <<new_x, new_y>>, ret |-> (ax # new_x \/ ay # new_y)]

\* "find the nearest corner" of cell (cx, cy) to pos
NearestCorner(cx, cy, pos) ==
    LET cx0 == cx * Cell
        cx1 == (cx + 1) * Cell
        cy0 == cy * Cell
        cy1 == (cy + 1) * Cell
    IN  <<IF 2 * pos[1] <= cx0 + cx1 THEN cx0 ELSE cx1,
          IF 2 * pos[2] <= cy0 + cy1 THEN cy0 ELSE cy1>>

\* One per-cell corner check.  raised: the division by dist = 0.0 raised
\* ZeroDivisionError before agent.coord was assigned.
_handle_corner_collision(g, cell_coord, pos, ar) ==
    LET cx == cell_coord[1]
        cy == cell_coord[2]
    IN  IF ~IsSolidCell(g, cx, cy) THEN [coord |-> pos, ret |-> FALSE, raised |-> FALSE]
        ELSE
        LET ax == pos[1]
            ay == pos[2]
            ar2 == ar * ar
            ncx == NearestCorner(cx, cy, pos)[1]
            ncy == NearestCorner(cx, cy, pos)[2]
            vx == ax - ncx
            vy == ay - ncy
            dist2 == vx * vx + vy * vy
        IN  IF dist2 < ar2
            THEN IF dist2 = 0
                 THEN [coord |-> pos, ret |-> FALSE, raised |-> TRUE]
                 ELSE LET new_x == ncx + Rescale(vx, ar, dist2)
                          new_y == ncy + Rescale(vy, ar, dist2)
                          \* ax != new_x or ay != new_y, on the unrounded values:
                          \* the new point is ar away from the corner, the old
                          \* one was nearer
                      IN  [coord |-> <<new_x, new_y>>, ret |-> TRUE, raised |-> FALSE]
            ELSE [coord |-> pos, ret |-> FALSE, raised |-> FALSE]

\* the first loop of _handle_collision, from cell k on
RECURSIVE bounding_loop(_, _, _, _, _, _)
bounding_loop(g, check_cells, k, pos, is_colliding, ar) ==
    IF k > Len(check_cells) THEN [coord |-> pos, ret |-> is_colliding]
    ELSE LET r == _handle_bounding_collision(g, check_cells[k], pos, ar)
         IN  bounding_loop(g, check_cells, k + 1, r.coord, is_colliding \/ r.ret, ar)

\* the second loop of _handle_collision, from cell k on; an exception ends it
RECURSIVE corner_loop(_, _, _, _, _, _)
corner_loop(g, check_cells, k, pos, is_colliding, ar) ==
    IF k > Len(check_cells) THEN [coord |-> pos, ret |-> is_colliding, raised |-> FALSE]
    ELSE LET r == _handle_corner_collision(g, check_cells[k], pos, ar)
         IN  IF r.raised THEN [coord |-> r.coord, ret |-> FALSE, raised |-> TRUE]
             ELSE corner_loop(g, check_cells, k + 1, r.coord, is_colliding \/ r.ret, ar)

\* the four cells around the grid point nearest to the agent
CheckCells(pos) ==
    LET x == round(pos[1])
        y == round(pos[2])
    IN  << <<x - 1, y - 1>>, <<x - 1, y>>, <<x, y>>, <<x, y - 1>> >>

_handle_collision(g, pos, ar) ==
    LET check_cells == CheckCells(pos)
        faces == bounding_loop(g, check_cells, 1, pos, FALSE, ar)
    IN  corner_loop(g, check_cells, 1, faces.coord, faces.ret, ar)

\* ---------------------------------------------------------------- controller

\* _walk: move, resolve collisions, collect coins.  moved is the position
\* between the move and the resolution.
_walk(g, a, pos, cs, th, distance) ==
    LET moved == <<pos[1] + Times(distance, cos(th)), pos[2] + Times(distance, sin(th))>>
        c == _handle_collision(g, moved, a.agent_radius)
    IN  IF c.raised
        THEN [coord |-> c.coord, coins |-> cs, ret |-> FALSE, raised |-> TRUE, moved |-> moved]
        ELSE [coord |-> c.coord,
              coins |-> _collect_coins(cs, a.coin_radius, c.coord[1], c.coord[2], a.agent_radius),
              ret |-> c.ret, raised |-> FALSE, moved |-> moved]

\* mutant of step_theta: TurnRight turns the same way as TurnLeft
step_theta_same_way(a, th, action) ==
    IF action \in {ACTION_TURN_LEFT, ACTION_TURN_RIGHT} THEN th + a.turn ELSE th

\* the heading after the branch of step that matches the action
step_theta(a, th, action) ==
    IF action = ACTION_TURN_LEFT THEN th + a.turn
    ELSE IF action = ACTION_TURN_RIGHT THEN th - a.turn
    ELSE th

\* step(action): the state it leaves and what it returns
step(g, a, pos, cs, th, action) ==
    LET th1 == step_theta(a, th, action)
    IN  IF action = ACTION_WALK_FORWARD
        THEN [theta |-> th1] @@ _walk(g, a, pos, cs, th1, a.stride)
        ELSE IF action \in {ACTION_TURN_LEFT, ACTION_TURN_RIGHT}
        THEN [theta |-> th1] @@ _walk(g, a, pos, cs, th1, a.stride_on_turn)
        ELSE [theta |-> th, coord |-> pos, coins |-> cs, ret |-> FALSE,
              raised |-> FALSE, moved |-> pos]

\* ---------------------------------------------------------------- geometry

\* squared distance from a point to the box of cell (cx, cy)
DistToCell2(pos, cx, cy) ==
    LET dx == IF pos[1] < cx * Cell THEN cx * Cell - pos[1]
              ELSE IF pos[1] > (cx + 1) * Cell THEN pos[1] - (cx + 1) * Cell ELSE 0
        dy == IF pos[2] < cy * Cell THEN cy * Cell - pos[2]
              ELSE IF pos[2] > (cy + 1) * Cell THEN pos[2] - (cy + 1) * Cell ELSE 0
    IN  dx * dx + dy * dy

CellsOf(g) == (0..(grid_shape(g)[2] - 1)) \X (0..(grid_shape(g)[1] - 1))

SolidCells(g) == {c \in CellsOf(g) : IsSolidCell(g, c[1], c[2])}

\* the circle of radius r around pos stays r away from every solid cell
Clear(g, pos, r) == \A c \in SolidCells(g) : DistToCell2(pos, c[1], c[2]) >= r * r

\* ---------------------------------------------------------------- inputs

\* stored rows, first row on top: the world's y axis points the other way
GridDiagonal == << <<1, 0>>, <<0, 1>> >>
GridTopLeft == << <<1, 0>>, <<0, 0>> >>
GridFloor == << <<0, 0>>, <<1, 1>> >>
Grids == {GridDiagonal, GridTopLeft, GridFloor}

\* radius 0.1, coin radius 0.05, stride 0.2, stride on turn 0.1, turn 45 degrees
\* and: radius 0.2, coin radius 0.05, stride 0.3, stride on turn 0.2, turn 90 degrees
ArgsSet == {[agent_stride |-> 20, agent_stride_on_turn |-> 10, agent_turn |-> 45,
             agent_radius |-> 10, coin_radius |-> 5],
            [agent_stride |-> 30, agent_stride_on_turn |-> 20, agent_turn |-> 90,
             agent_radius |-> 20, coin_radius |-> 5]}

\* Controller.__init__
Controller(a) == [stride |-> a.agent_stride, stride_on_turn |-> a.agent_stride_on_turn,
                  turn |-> a.agent_turn, agent_radius |-> a.agent_radius,
                  coin_radius |-> a.coin_radius]

RECURSIVE SeqsUpTo(_, _)
SeqsUpTo(S, n) ==
    IF n = 0 THEN {<<>>}
    ELSE LET shorter == SeqsUpTo(S, n - 1)
         IN  shorter \cup {Append(s, e) : s \in {t \in shorter : Len(t) = n - 1}, e \in S}

StartXs == {110, 130, 150, 170}
StartYs == {110, 130, 150, 170, 210}
StartThetas == {0, 180, 225, 270}
CoinPoints == {<<150, 150>>, <<165, 150>>}

NoCall == [op |-> "none", action |-> "none", cell |-> <<0, 0>>, coord0 |-> <<0, 0>>,
           theta0 |-> 0, coins0 |-> <<>>, moved |-> <<0, 0>>, ret |-> FALSE,
           raised |-> FALSE, prev_action |-> "none", prev_theta0 |-> 0]

Init ==
    /\ grid \in Grids
    /\ args \in {Controller(a) : a \in ArgsSet}
    /\ coord \in {p \in StartXs \X StartYs : Clear(grid, p, args.agent_radius)}
    /\ theta \in StartThetas
    /\ coins \in SeqsUpTo(CoinPoints, MaxCoins)
    /\ start = [coord |-> coord, theta |-> theta, coins |-> coins]
    /\ last = NoCall
    /\ ncalls = 0

\* ---------------------------------------------------------------- actions

\* one call of Controller.step
Step(action) ==
    /\ ncalls < MaxSteps
    /\ \E r \in {step(grid, args, coord, coins, theta, action)} :
           /\ coord' = r.coord
           /\ theta' = r.theta
           /\ coins' = r.coins
           /\ last' = [op |-> "step", action |-> action, cell |-> <<0, 0>>,
                       coord0 |-> coord, theta0 |-> theta, coins0 |-> coins,
                       moved |-> r.moved, ret |-> r.ret, raised |-> r.raised,
                       prev_action |-> last.action, prev_theta0 |-> last.theta0]
    /\ ncalls' = ncalls + 1
    /\ UNCHANGED <<grid, args, start>>

StepWalkForward == Step(ACTION_WALK_FORWARD)
StepTurnLeft == Step(ACTION_TURN_LEFT)
StepTurnRight == Step(ACTION_TURN_RIGHT)
\* a value that is none of the three actions
StepOther == Step("OTHER")

Next ==
    \/ StepWalkForward
    \/ StepTurnLeft
    \/ StepTurnRight
    \/ StepOther

Spec == Init /\ [][Next]_vars

\* ---------------------------------------------------------------- direct calls

UnitXs == {0, 50, 95, 100, 105, 150, 210}
UnitYs == {50, 95, 100, 105, 150, 200}
UnitCoinPoints == {<<200, 200>>, <<225, 200>>}

InitUnit ==
    /\ grid \in Grids
    /\ args \in {Controller(a) : a \in ArgsSet}
    /\ coord \in UnitXs \X UnitYs
    /\ theta = 0
    /\ coins \in SeqsUpTo(UnitCoinPoints, MaxCoins)
    /\ start = [coord |-> coord, theta |-> theta, coins |-> coins]
    /\ last = NoCall
    /\ ncalls = 0

Called(op, cell, r) ==
    [op |-> op, action |-> "none", cell |-> cell, coord0 |-> coord, theta0 |-> theta,
     coins0 |-> coins, moved |-> coord, ret |-> r.ret, raised |-> r.raised,
     prev_action |-> last.action, prev_theta0 |-> last.theta0]

\* _collect_coins on the level's coins at the agent's position
CallCollectCoins ==
    /\ ncalls < MaxSteps
    /\ coins' = _collect_coins(coins, args.coin_radius, coord[1], coord[2], args.agent_radius)
    /\ last' = Called("_collect_coins", <<0, 0>>, [ret |-> FALSE, raised |-> FALSE])
    /\ ncalls' = ncalls + 1
    /\ UNCHANGED <<grid, args, coord, theta, start>>

\* self._handle_collision()
CallHandleCollision ==
    /\ ncalls < MaxSteps
    /\ \E r \in {_handle_collision(grid, coord, args.agent_radius)} :
           /\ coord' = r.coord
           /\ last' = Called("_handle_collision", <<0, 0>>, r)
    /\ ncalls' = ncalls + 1
    /\ UNCHANGED <<grid, args, theta, coins, start>>

\* self._handle_bounding_collision(cell)
CallBoundingCollision ==
    /\ ncalls < MaxSteps
    /\ \E cell \in CellsOf(grid) :
       \E r \in {_handle_bounding_collision(grid, cell, coord, args.agent_radius)} :
           /\ coord' = r.coord
           /\ last' = Called("_handle_bounding_collision", cell, [ret |-> r.ret, raised |-> FALSE])
    /\ ncalls' = ncalls + 1
    /\ UNCHANGED <<grid, args, theta, coins, start>>

\* self._handle_corner_collision(cell)
CallCornerCollision ==
    /\ ncalls < MaxSteps
    /\ \E cell \in CellsOf(grid) :
       \E r \in {_handle_corner_collision(grid, cell, coord, args.agent_radius)} :
           /\ coord' = r.coord
           /\ last' = Called("_handle_corner_collision", cell, r)
    /\ ncalls' = ncalls + 1
    /\ UNCHANGED <<grid, args, theta, coins, start>>

NextUnit ==
    \/ CallCollectCoins
    \/ CallHandleCollision
    \/ CallBoundingCollision
    \/ CallCornerCollision

SpecUnit == InitUnit /\ [][NextUnit]_vars

\* ---------------------------------------------------------------- scenario

\* 2 rows by 2 columns, the only solid cell stored at row 0, column 0; the agent
\* at (1.05, 1.05) heading 225 degrees
InitScenario ==
    /\ grid = GridTopLeft
    /\ args \in {Controller(a) : a \in ArgsSet}
    /\ coord = <<105, 105>>
    /\ theta = 225
    /\ coins \in SeqsUpTo(CoinPoints, MaxCoins)
    /\ start = [coord |-> coord, theta |-> theta, coins |-> coins]
    /\ last = NoCall
    /\ ncalls = 0

SpecScenario == InitScenario /\ [][Next]_vars

\* ---------------------------------------------------------------- claims

Dist2(p, q) == (p[1] - q[1]) * (p[1] - q[1]) + (p[2] - q[2]) * (p[2] - q[2])

Threshold2 == (args.agent_radius + args.coin_radius) * (args.agent_radius + args.coin_radius)

\* a step with one of the three actions that returned normally
Stepped == last.op = "step" /\ last.action \in Actions /\ ~last.raised

RECURSIVE IsSubseq(_, _)
IsSubseq(s, t) ==
    IF s = <<>> THEN TRUE
    ELSE IF t = <<>> THEN FALSE
    ELSE IF Head(s) = Head(t) THEN IsSubseq(Tail(s), Tail(t))
    ELSE IsSubseq(s, Tail(t))

\* C1: started clear of every solid cell, after any sequence of steps the
\* agent's centre is at least the radius (less one unit of rounding) away from
\* the box of every solid in-bounds cell.
C1_NoPenetration ==
    Clear(grid, start.coord, args.agent_radius)
        => Clear(grid, coord, args.agent_radius - 1)

\* C2: after a step, no coin of the list is strictly nearer to the agent than
\* agent_radius + coin_radius.
C2_CoinRemoval ==
    Stepped => \A i \in 1..Len(coins) : Dist2(coins[i], coord) >= Threshold2

\* C3: the coin list is always a subsequence of the initial list, and the
\* coins a step found at agent_radius + coin_radius or farther from the agent
\* are all still there afterwards, in the same order.
C3_CoinRetention ==
    /\ IsSubseq(coins, start.coins)
    /\ (Stepped =>
            LET Far(c) == Dist2(c, coord) >= Threshold2
            IN  SelectSeq(coins, Far) = SelectSeq(last.coins0, Far))

C3_Witness ==
    /\ Stepped
    /\ Len(coins) < Len(last.coins0)
    /\ \E i \in 1..Len(coins) : Dist2(coins[i], coord) = Threshold2

\* the corner pass of the step's run pushed nothing: the position the run left
\* came from the face pass alone, whose arithmetic is exact
FacePassOnly ==
    bounding_loop(grid, CheckCells(last.moved), 1, last.moved, FALSE, args.agent_radius).coord = coord

\* C4: a second run of _handle_collision on the position a step's run left
\* reports no collision and leaves the position where it is.  Stated for the
\* runs that involve no rounding.
C4_Idempotent ==
    (Stepped /\ FacePassOnly) =>
        LET again == _handle_collision(grid, coord, args.agent_radius)
        IN  ~again.raised /\ ~again.ret /\ again.coord = coord

\* C5: a step with a value that is none of the three actions raises an error.
C5_InvalidActionRejected ==
    (last.op = "step" /\ last.action \notin Actions) => last.raised

\* the grid scenario after its one WalkForward: 2 by 2 grid, the only solid
\* cell stored at (row 0, col 0), agent from (1.05, 1.05) heading 225 degrees,
\* radius 0.1, stride 0.2
ScenarioWalked ==
    /\ grid = GridTopLeft
    /\ start.coord = <<105, 105>>
    /\ start.theta = 225
    /\ args.agent_radius = 10
    /\ args.stride = 20
    /\ ncalls = 1
    /\ last.op = "step"
    /\ last.action = ACTION_WALK_FORWARD

\* C6 as stated: the solid cell stored at (row 0, col 0) of the 2 by 2 grid is
\* the world cell [0,1] x [0,1]; from (1.05, 1.05), heading 225 degrees, one
\* WalkForward returns true and ends at least 0.1 away from that box.
C6_ScenarioAsStated ==
    ScenarioWalked =>
        /\ SolidCells(grid) = {<<0, 0>>}
        /\ last.ret
        /\ DistToCell2(coord, 0, 0) >= args.agent_radius * args.agent_radius

\* C6 amended: that cell is the world cell [0,1] x [1,2]; the step returns true
\* and ends at least 0.1 away from the box [0,1] x [1,2].
C6_ScenarioFlipped ==
    ScenarioWalked =>
        /\ SolidCells(grid) = {<<0, 1>>}
        /\ last.ret
        /\ DistToCell2(coord, 0, 1) >= args.agent_radius * args.agent_radius

C6_Witness == ScenarioWalked /\ last.ret /\ coord # last.moved

\* the coin scenario after its collection: one coin at (2.0, 2.0), the agent at
\* (2.1, 2.0), agent radius 0.1, coin radius 0.05
CoinScenario ==
    /\ last.op = "_collect_coins"
    /\ last.coins0 = << <<200, 200>> >>
    /\ last.coord0 = <<210, 200>>
    /\ args.agent_radius = 10
    /\ args.coin_radius = 5

\* C7 as stated: coin at (2.0, 2.0), agent at (2.1, 2.0), radii 0.1 and 0.05:
\* the coin is still in the list after the collection.
C7_CoinKept == CoinScenario => coins = << <<200, 200>> >>

\* C7 amended: the distance 0.1 is below the threshold 0.15, and the
\* collection removes the coin.
C7_CoinCollected == CoinScenario => coins = <<>>

C7_Witness == CoinScenario /\ Dist2(last.coins0[1], last.coord0) < Threshold2

\* C8: TurnLeft followed immediately by TurnRight leaves the heading at the
\* value it had before the two steps.
C8_TurnComposition ==
    (last.op = "step" /\ last.action = ACTION_TURN_RIGHT /\ last.prev_action = ACTION_TURN_LEFT)
        => theta = last.prev_theta0

C8_Witness ==
    /\ last.op = "step"
    /\ last.action = ACTION_TURN_RIGHT
    /\ last.prev_action = ACTION_TURN_LEFT
    /\ last.ret
    /\ coord # start.coord

\* the cells that share a face or a corner with cell c
Neighbours(c) ==
    {<<c[1] + dx, c[2] + dy>> : dx \in {-1, 0, 1}, dy \in {-1, 0, 1}} \ {c}

\* a WalkForward along an axis that started clear of cell c, within the span
\* of the face it heads for and farther than the radius from both of that
\* face's corners, and whose move brought the centre nearer than the radius
\* to the face or past it; every neighbour of c is open
FaceHit(c, along) ==
    LET ar == args.agent_radius
        lo == c[along] * Cell
        hi == (c[along] + 1) * Cell
        across == 3 - along
        flo == c[across] * Cell
        fhi == (c[across] + 1) * Cell
        d == last.theta0 % 360
        p0 == last.coord0[across]
        p1 == last.moved[across]
    IN  /\ Stepped
        /\ last.action = ACTION_WALK_FORWARD
        /\ c \in SolidCells(grid)
        /\ Neighbours(c) \cap SolidCells(grid) = {}
        /\ lo + ar < last.coord0[along]
        /\ last.coord0[along] < hi - ar
        /\ \/ d = (IF across = 1 THEN 0 ELSE 90) /\ p0 <= flo - ar /\ p1 > flo - ar
           \/ d = (IF across = 1 THEN 180 ELSE 270) /\ p0 >= fhi + ar /\ p1 < fhi + ar

\* C9: a walk straight at one face of a lone solid cell is corrected across
\* the face only: the coordinate along the face is the one the move gave.
C9_FaceOnly ==
    \A c \in SolidCells(grid) : \A along \in {1, 2} :
        FaceHit(c, along) => coord[along] = last.moved[along]

\* _handle_corner_collision ran on a solid in-bounds cell whose nearest corner
\* was the agent's centre
DegenerateCorner ==
    /\ last.op = "_handle_corner_collision"
    /\ IsSolidCell(grid, last.cell[1], last.cell[2])
    /\ NearestCorner(last.cell[1], last.cell[2], last.coord0) = last.coord0

\* C10: _handle_corner_collision on a solid cell whose nearest corner is the
\* agent's centre returns normally, reports no collision and leaves the
\* position unchanged.
C10_DegenerateCornerSkipped ==
    DegenerateCorner => ~last.raised /\ ~last.ret /\ coord = last.coord0

====
